---- MODULE Spec2Model ----
(***************************************************************************)
(* AbstractActionReader (src/src/AbstractActionReader.ts): the block       *)
(* reader of demux-js.  The reader's fields are the state; nextBlock and   *)
(* seekToBlock are the operations; the chain adapter behind the abstract   *)
(* getHeadBlockNumber / getBlock methods is the environment.               *)
(***************************************************************************)
EXTENDS Integers, Sequences, FiniteSets, TLC

\* ---------------------------------------------------------------- bounds
\* Longest chain the adapter ever serves.
MaxBlock == 4
\* Number of chain reorganisations the adapter performs.
MaxReorgs == 1
\* Largest maxHistoryLength a reader is constructed with.
MaxHistory == 3
\* startAtBlock is drawn from -MaxTail .. MaxStart.
MaxTail == 1
MaxStart == 2

VARIABLES
    chain,              \* adapter: the chain it serves now, one tag per block
    reorgs,             \* adapter: reorganisations so far
    startAtBlock,       \* reader fields
    maxHistoryLength,
    headBlockNumber,
    currentBlockNumber,
    isFirstBlock,
    currentBlockData,
    blockHistory,
    ret,                \* outcome of the last reader operation
    returned,           \* block returned by the last successful nextBlock
    exhausted,          \* history exhaustion was raised and no seek followed
    rollbacks           \* isRollback=true results since the last reorganisation
                        \* (counted up to 2)

vars == <<chain, reorgs, startAtBlock, maxHistoryLength, headBlockNumber,
          currentBlockNumber, isFirstBlock, currentBlockData, blockHistory,
          ret, returned, exhausted, rollbacks>>

\* ---------------------------------------------------------------- blocks
\* Block.blockInfo of ./interfaces: blockNumber, blockHash, previousBlockHash.
\* null is the block numbered 0, which no adapter serves.
Null == [blockNumber |-> 0, blockHash |-> 0, previousBlockHash |-> 0]

\* The sentinel of nextBlock that equals no block hash.
INVALID == 0

\* A block hash identifies the block and all its ancestors: the hash of a
\* prefix of the chain, an injective encoding of its tags (always >= 1).
RECURSIVE Hash(_)
Hash(prefix) ==
    IF prefix = <<>> THEN 1
    ELSE 2 * Hash(SubSeq(prefix, 1, Len(prefix) - 1)) + prefix[Len(prefix)]

\* The block the chain c holds at number n.
BlockAt(c, n) ==
    [blockNumber |-> n,
     blockHash |-> Hash(SubSeq(c, 1, n)),
     previousBlockHash |-> Hash(SubSeq(c, 1, n - 1))]

\* getBlock(n) resolves for the numbers the adapter holds and rejects the rest.
HasBlock(c, n) == n \in 1..Len(c)

\* getHeadBlockNumber() of the adapter.
getHeadBlockNumber == Len(chain)

\* getBlock(n) of the adapter, where it resolves.
getBlock(n) == BlockAt(chain, n)

Zeros(n) == [i \in 1..n |-> 0]

\* ---------------------------------------------------------------- reader
\* The reader's fields with the bookkeeping of one call: err is the error the
\* call throws, n the adapter calls made so far, calls the getBlock arguments.
Reader ==
    [head |-> headBlockNumber, cbn |-> currentBlockNumber,
     start |-> startAtBlock, first |-> isFirstBlock,
     cbd |-> currentBlockData, hist |-> blockHistory,
     err |-> "none", n |-> 0, calls |-> <<>>,
     isRollback |-> FALSE, isNewBlock |-> FALSE]

\* The adapter call about to be made is the one that rejects (f = 0: none does).
Rejects(s, f) == f = s.n + 1

\* nextBlock: "If we're on the head block, refresh current head block".
NeedsHeadRefresh(cbn, head) == cbn = head \/ head = 0

refreshHead(s, f) ==
    IF NeedsHeadRefresh(s.cbn, s.head)
    THEN IF Rejects(s, f)
         THEN [s EXCEPT !.err = "io", !.n = @ + 1]
         ELSE [s EXCEPT !.head = getHeadBlockNumber, !.n = @ + 1]
    ELSE s

\* Mutant of WrappedBlockNumber: the wrap lands one block later.
WrappedBlockNumberOffByOne(head, cbn) == head + cbn + 1

\* nextBlock: a negative currentBlockNumber wraps to the end of the chain.
WrappedBlockNumber(head, cbn) == head + cbn

wrapNegative(s) ==
    IF s.cbn < 0 /\ Len(s.hist) = 0
    THEN [s EXCEPT !.cbn = WrappedBlockNumber(s.head, s.cbn),
                   !.start = WrappedBlockNumber(s.head, s.cbn) + 1]
    ELSE s

\* nextBlock: expectedHash.
ExpectedHash(cbd) == IF cbd # Null THEN cbd.blockHash ELSE INVALID

\* nextBlock: the test that validates the fetched block.
IsValidated(expectedHash, actualHash, hist) ==
    expectedHash = actualHash \/ Len(hist) = 0

\* Mutant of TrimHistory: the history is never trimmed.
TrimHistoryNever(hist, max) == hist

\* blockHistory.splice(0, blockHistory.length - maxHistoryLength)
TrimHistory(hist, max) ==
    IF Len(hist) - max > 0
    THEN SubSeq(hist, Len(hist) - max + 1, Len(hist))
    ELSE hist

\* Mutant of CommittedNumber: the commit does not advance the number.
CommittedNumberStale(block) == block.blockNumber - 1

\* nextBlock: currentBlockNumber after a commit.
CommittedNumber(block) == block.blockNumber

\* nextBlock: the validated block becomes the current one.
commit(s, block) ==
    LET pushed == IF s.cbd # Null THEN Append(s.hist, s.cbd) ELSE s.hist
    IN  [s EXCEPT !.hist = TrimHistory(pushed, maxHistoryLength),
                  !.cbd = block,
                  !.isNewBlock = TRUE,
                  !.cbn = CommittedNumber(block)]

\* resolveFork: the block refetched in each round.
RefetchNumber(cbd) == cbd.blockNumber

\* resolveFork: the refetched block links to the newest history entry.
LinksTo(current, previous) == current.previousBlockHash = previous.blockHash

\* resolveFork: the while loop.
RECURSIVE rollBack(_, _)
rollBack(s, f) ==
    IF Len(s.hist) = 0 THEN s
    ELSE LET previousBlockData == s.hist[Len(s.hist)]
             number == RefetchNumber(s.cbd)
             t == [s EXCEPT !.n = @ + 1, !.calls = Append(@, number)]
         IN  IF Rejects(s, f) \/ ~HasBlock(chain, number)
             THEN [t EXCEPT !.err = "io"]
             ELSE IF LinksTo(getBlock(number), previousBlockData)
                  THEN [t EXCEPT !.cbd = getBlock(number)]
                  ELSE rollBack([t EXCEPT !.cbd = previousBlockData,
                                          !.hist = SubSeq(@, 1, Len(@) - 1)], f)

\* historyExhausted: the default handler throws.
historyExhausted(s) == [s EXCEPT !.err = "exhausted"]

\* Mutant of ResumeNumber: resume at the branch block itself.
ResumeNumberAtBranch(hist) == hist[Len(hist)].blockNumber

\* resolveFork: currentBlockNumber after the loop.
ResumeNumber(hist) == hist[Len(hist)].blockNumber + 1

resolveFork(s, f) ==
    IF s.cbd = Null THEN [s EXCEPT !.err = "forknull"]
    ELSE LET t == rollBack(s, f)
         IN  IF t.err # "none" THEN t
             ELSE IF Len(t.hist) = 0 THEN historyExhausted(t)
             ELSE [t EXCEPT !.cbn = ResumeNumber(t.hist)]

\* nextBlock: the fork branch, with the head refresh that follows resolveFork.
rollbackBranch(s, f) ==
    LET t == resolveFork(s, f)
    IN  IF t.err # "none" THEN t
        ELSE IF Rejects(t, f)
             THEN [t EXCEPT !.err = "io", !.n = @ + 1]
             ELSE [t EXCEPT !.isNewBlock = TRUE, !.isRollback = TRUE,
                            !.head = getHeadBlockNumber, !.n = @ + 1]

\* nextBlock: "If we're now behind one or more new blocks, process them".
fetchNext(s, f) ==
    IF s.cbn < s.head
    THEN LET t == [s EXCEPT !.n = @ + 1, !.calls = Append(@, s.cbn + 1)]
         IN  IF Rejects(s, f) \/ ~HasBlock(chain, s.cbn + 1)
             THEN [t EXCEPT !.err = "io"]
             ELSE IF IsValidated(ExpectedHash(t.cbd),
                                 getBlock(s.cbn + 1).previousBlockHash, t.hist)
                  THEN commit(t, getBlock(s.cbn + 1))
                  ELSE rollbackBranch(t, f)
    ELSE s

\* Mutant of IsFirst: the flag is raised one block early.
IsFirstOffByOne(cbn, start) == cbn = start - 1

\* nextBlock: isFirstBlock.
IsFirst(cbn, start) == cbn = start

\* nextBlock: isFirstBlock, the null check and the return.
finish(s) ==
    LET t == [s EXCEPT !.first = IsFirst(s.cbn, s.start)]
    IN  IF t.cbd = Null THEN [t EXCEPT !.err = "null"] ELSE t

\* nextBlock(), with the f-th adapter call of it rejecting.
nextBlockResult(f) ==
    LET s1 == refreshHead(Reader, f)
        s2 == IF s1.err # "none" THEN s1 ELSE fetchNext(wrapNegative(s1), f)
    IN  IF s2.err # "none" THEN s2 ELSE finish(s2)

\* seekToBlock: the scan of blockHistory from its newest entry (i counts down).
RECURSIVE scanHistory(_, _, _, _)
scanHistory(hist, i, blockNumber, toDelete) ==
    IF i < 1 THEN toDelete
    ELSE IF hist[i].blockNumber = blockNumber THEN toDelete
    ELSE scanHistory(hist, i - 1, blockNumber, toDelete + 1)

\* blockHistory.splice(toDelete): the entries from index toDelete on are removed.
SpliceFrom(hist, toDelete) == SubSeq(hist, 1, toDelete)

\* seekToBlock: "Check if block exists in history".
reuseHistory(s, blockNumber) ==
    LET toDelete == scanHistory(s.hist, Len(s.hist), blockNumber, -1)
        kept == SpliceFrom(s.hist, toDelete)
    IN  IF toDelete >= 0
        THEN IF Len(kept) > 0
             THEN [s EXCEPT !.hist = SubSeq(kept, 1, Len(kept) - 1),
                            !.cbd = kept[Len(kept)]]
             ELSE [s EXCEPT !.hist = kept, !.cbd = Null]
        ELSE s

\* seekToBlock: the test of the target against startAtBlock.
IsBeforeStart(blockNumber, start) == blockNumber < start

\* seekToBlock: "Load current block".
loadCurrent(s, blockNumber, f) ==
    LET t == [s EXCEPT !.cbn = blockNumber - 1]
    IN  IF t.cbd = Null
        THEN LET u == [t EXCEPT !.n = @ + 1, !.calls = Append(@, t.cbn)]
             IN  IF Rejects(t, f) \/ ~HasBlock(chain, t.cbn)
                 THEN [u EXCEPT !.err = "io"]
                 ELSE [u EXCEPT !.cbd = getBlock(t.cbn)]
        ELSE t

\* seekToBlock(blockNumber), with the f-th adapter call of it rejecting.
seekToBlockResult(blockNumber, f) ==
    LET s == [Reader EXCEPT !.cbd = Null, !.head = 0]
    IN  IF IsBeforeStart(blockNumber, s.start) THEN [s EXCEPT !.err = "invalid"]
        ELSE IF blockNumber = 1 THEN [s EXCEPT !.hist = <<>>, !.cbn = 0]
        ELSE loadCurrent(reuseHistory(s, blockNumber), blockNumber, f)

\* ---------------------------------------------------------------- actions
\* The caller's view of a finished call: what it returned or threw.
Outcome(op, arg, s) ==
    [op |-> op, arg |-> arg, err |-> s.err,
     block |-> IF op = "nextBlock" /\ s.err = "none" THEN s.cbd ELSE Null,
     isRollback |-> s.err = "none" /\ s.isRollback,
     isNewBlock |-> s.err = "none" /\ s.isNewBlock,
     calls |-> s.calls]

\* The fields of the reader after a call that ended in s.
Store(s) ==
    /\ headBlockNumber' = s.head
    /\ currentBlockNumber' = s.cbn
    /\ startAtBlock' = s.start
    /\ isFirstBlock' = s.first
    /\ currentBlockData' = s.cbd
    /\ blockHistory' = s.hist

\* The constructor: currentBlockNumber = startAtBlock - 1, the field defaults.
Init ==
    /\ chain = <<>>
    /\ reorgs = 0
    /\ startAtBlock \in (0 - MaxTail)..MaxStart
    /\ maxHistoryLength \in 1..MaxHistory
    /\ headBlockNumber = 0
    /\ currentBlockNumber = startAtBlock - 1
    /\ isFirstBlock = TRUE
    /\ currentBlockData = Null
    /\ blockHistory = <<>>
    /\ ret = [op |-> "none", arg |-> 0, err |-> "none", block |-> Null,
              isRollback |-> FALSE, isNewBlock |-> FALSE, calls |-> <<>>]
    /\ returned = Null
    /\ exhausted = FALSE
    /\ rollbacks = 0

\* One call of nextBlock(), run to its return or its throw.
NextBlockCall(f) ==
    LET s == nextBlockResult(f)
    IN  /\ Store(s)
        /\ ret' = Outcome("nextBlock", 0, s)
        /\ returned' = IF s.err = "none" THEN s.cbd ELSE returned
        /\ exhausted' = (exhausted \/ s.err = "exhausted")
        /\ rollbacks' = IF s.err = "none" /\ s.isRollback /\ rollbacks < 2
                        THEN rollbacks + 1 ELSE rollbacks
        /\ UNCHANGED <<chain, reorgs, maxHistoryLength>>

\* One call of seekToBlock(blockNumber), run to its return or its throw.
SeekToBlockCall(blockNumber, f) ==
    LET s == seekToBlockResult(blockNumber, f)
    IN  /\ Store(s)
        /\ ret' = Outcome("seekToBlock", blockNumber, s)
        /\ exhausted' = FALSE
        /\ UNCHANGED <<chain, reorgs, maxHistoryLength, returned, rollbacks>>

\* The adapter calls one nextBlock() can make: two head lookups, the forward
\* fetch and one refetch per history entry.
MaxCalls == maxHistoryLength + 3

NextBlock == \E f \in 0..MaxCalls : NextBlockCall(f)

NextBlockOk == NextBlockCall(0)

SeekToBlock == \E blockNumber \in 0..MaxBlock : \E f \in 0..1 :
                   SeekToBlockCall(blockNumber, f)

SeekToBlockOk == \E blockNumber \in 0..MaxBlock :
                     SeekToBlockCall(blockNumber, 0)

\* The adapter's chain gains a block.
Grow ==
    /\ Len(chain) < MaxBlock
    /\ chain' = Append(chain, 0)
    /\ UNCHANGED <<reorgs, startAtBlock, maxHistoryLength, headBlockNumber,
                   currentBlockNumber, isFirstBlock, currentBlockData,
                   blockHistory, ret, returned, exhausted, rollbacks>>

\* The adapter switches to a chain that differs from block k on and has head
\* newHead.
ReorgTo(k, newHead) ==
    /\ chain' = SubSeq(chain, 1, k - 1) \o <<1 - chain[k]>> \o Zeros(newHead - k)
    /\ reorgs' = reorgs + 1
    /\ rollbacks' = 0
    /\ UNCHANGED <<startAtBlock, maxHistoryLength, headBlockNumber,
                   currentBlockNumber, isFirstBlock, currentBlockData,
                   blockHistory, ret, returned, exhausted>>

Reorg ==
    /\ reorgs < MaxReorgs
    /\ \E k \in 1..Len(chain) : \E newHead \in k..MaxBlock : ReorgTo(k, newHead)

Next == NextBlock \/ SeekToBlock \/ Grow \/ Reorg

Spec == Init /\ [][Next]_vars

\* ------------------------------------------------- restricted environments
\* The adapter reorganises once; every adapter call resolves; no seek.
ReorgOnce ==
    /\ reorgs = 0
    /\ \E k \in 1..Len(chain) : \E newHead \in k..MaxBlock : ReorgTo(k, newHead)

NextFork == NextBlockOk \/ Grow \/ ReorgOnce

SpecFork == Init /\ [][NextFork]_vars

\* The adapter serves one chain that only grows; every adapter call it can
\* serve resolves.
NextStable == NextBlockOk \/ SeekToBlockOk \/ Grow

SpecStable == Init /\ [][NextStable]_vars

\* Every adapter call the chain can serve resolves; the adapter reorganises
\* once.
NextOk == NextBlockOk \/ SeekToBlockOk \/ Grow \/ ReorgOnce

SpecOk == Init /\ [][NextOk]_vars

\* The adapter serves one chain that only grows; any adapter call may reject.
NextRetry == NextBlock \/ SeekToBlock \/ Grow

SpecRetry == Init /\ [][NextRetry]_vars

\* The adapter reorganises once; any adapter call may reject; no seek.
NextForkRetry == NextBlock \/ Grow \/ ReorgOnce

SpecForkRetry == Init /\ [][NextForkRetry]_vars

\* ---------------------------------------------------------------- claims
\* The block b is the one the adapter's chain holds now at b's number.
OnChain(b) == HasBlock(chain, b.blockNumber) /\ b = BlockAt(chain, b.blockNumber)

\* The newest entry of a history that the adapter's chain still holds.
RECURSIVE NewestOnChain(_, _)
NewestOnChain(hist, i) ==
    IF i < 1 THEN Null
    ELSE IF OnChain(hist[i]) THEN hist[i]
    ELSE NewestOnChain(hist, i - 1)

\* C1: whenever nextBlock is called with a currentBlockData present and
\* returns isNewBlock=true, isRollback=false, the returned block's
\* previousBlockHash is the blockHash of the currentBlockData held when the call
\* started, also when blockHistory is empty at the call.
C1_HashChainConsistency ==
    [][(NextBlockOk /\ currentBlockData # Null /\ ret'.err = "none"
            /\ ret'.isNewBlock /\ ~ret'.isRollback)
        => ret'.block.previousBlockHash = currentBlockData.blockHash]_vars

\* C2, the case: the reader holds block n of the chain served before the one
\* reorganisation, the chain served now differs from it at some k <= n, has a
\* head above n which the reader has not seen lower, and blockHistory still
\* holds block k-1.
C2_ForkPending ==
    /\ reorgs = 1
    /\ rollbacks = 0
    /\ currentBlockData # Null
    /\ currentBlockData.blockNumber = currentBlockNumber
    /\ ~OnChain(currentBlockData)
    /\ NewestOnChain(blockHistory, Len(blockHistory)) # Null
    /\ Len(chain) > currentBlockNumber
    /\ headBlockNumber >= currentBlockNumber

\* C2, the case after it: the fork was reported and the chain has more blocks.
C2_ForkResolved ==
    /\ reorgs = 1
    /\ rollbacks = 1
    /\ Len(chain) > currentBlockNumber

\* C2: in every reachable state with a fork pending, a nextBlock call detects
\* it at the fetch of block n+1, returns the new chain's block k with
\* isRollback=true and isNewBlock=true and leaves currentBlockNumber = k and
\* block k-1 as the newest blockHistory entry; once the fork was reported, a
\* call returns the new chain's next block (k+1, k+2, ... in order) as a new
\* block without rollback; isRollback=true is reported once for the fork.
C2_ForkResolution ==
    LET r == nextBlockResult(0)
        branch == NewestOnChain(blockHistory, Len(blockHistory))
        k == branch.blockNumber + 1
    IN  /\ C2_ForkPending =>
            /\ r.err = "none"
            /\ r.calls[1] = currentBlockNumber + 1
            /\ r.cbd = BlockAt(chain, k)
            /\ r.isRollback /\ r.isNewBlock
            /\ r.cbn = k
            /\ r.hist # <<>> /\ r.hist[Len(r.hist)] = branch
        /\ C2_ForkResolved =>
            /\ r.err = "none"
            /\ r.cbd = BlockAt(chain, currentBlockNumber + 1)
            /\ r.cbn = currentBlockNumber + 1
            /\ r.isNewBlock /\ ~r.isRollback
        /\ rollbacks <= 1

\* C2 witness: a fork two or more blocks deep was resolved (the forward fetch
\* and at least two refetches) onto the chain served now.
C2_Witness ==
    /\ ret.op = "nextBlock" /\ ret.isRollback /\ rollbacks = 1
    /\ Len(ret.calls) >= 3
    /\ OnChain(currentBlockData)
    /\ currentBlockNumber = currentBlockData.blockNumber

\* C3: after nextBlock failed with the history-exhausted error, no later
\* nextBlock call returns a block unless a seek came in between.
C3_ExhaustedIsTerminal ==
    [][(exhausted /\ NextBlockOk) => ret'.err # "none"]_vars

\* C4: a successful seekToBlock(N), N a block number (N >= 1), followed by
\* nextBlock() with the adapter's head >= N returns a block whose blockNumber
\* is N.
C4_SeekThenAdvance ==
    [][(ret.op = "seekToBlock" /\ ret.err = "none" /\ ret.arg >= 1
            /\ NextBlockOk /\ getHeadBlockNumber >= ret.arg)
        => (ret'.err = "none" /\ ret'.block.blockNumber = ret.arg)]_vars

\* C5: seekToBlock(N) with N < startAtBlock fails and leaves currentBlockData,
\* currentBlockNumber, headBlockNumber and blockHistory as they were.
C5_InvalidSeekKeepsState ==
    [][(SeekToBlockOk /\ ret'.err = "invalid")
        => UNCHANGED <<currentBlockData, currentBlockNumber, headBlockNumber,
                       blockHistory>>]_vars

\* C6: the length of blockHistory is at most maxHistoryLength.
C6_HistoryBound == Len(blockHistory) <= maxHistoryLength

\* C6 witness: a commit filled blockHistory and dropped its oldest entry (the
\* oldest entry kept is newer than the first block of the stream).
C6_Witness ==
    /\ ret.op = "nextBlock" /\ ret.isNewBlock /\ ~ret.isRollback
    /\ Len(blockHistory) = maxHistoryLength
    /\ blockHistory[Len(blockHistory)].blockNumber = currentBlockNumber - 1
    /\ blockHistory[1].blockNumber = currentBlockNumber - maxHistoryLength
    /\ blockHistory[1].blockNumber > startAtBlock

\* C7: once a block has been committed, a nextBlock call made while the
\* adapter's head equals currentBlockNumber returns currentBlockData with both
\* flags false, makes no getBlock call and leaves currentBlockNumber,
\* currentBlockData and blockHistory unchanged.
C7_IdempotentCatchUp ==
    [][(NextBlockOk /\ returned # Null
            /\ getHeadBlockNumber = currentBlockNumber)
        => /\ ret'.err = "none"
           /\ ret'.block = currentBlockData
           /\ ~ret'.isRollback /\ ~ret'.isNewBlock
           /\ ret'.calls = <<>>
           /\ UNCHANGED <<currentBlockNumber, currentBlockData,
                          blockHistory>>]_vars

\* C8 as stated: a successful nextBlock call without rollback adds exactly 1
\* to currentBlockNumber when it returns isNewBlock=true and leaves it unchanged
\* otherwise.
C8_MonotonicAdvance ==
    [][(NextBlockOk /\ ret'.err = "none" /\ ~ret'.isRollback)
        => currentBlockNumber' =
               IF ret'.isNewBlock THEN currentBlockNumber + 1
               ELSE currentBlockNumber]_vars

\* C8 amended: as C8, except that a call entered with a negative
\* currentBlockNumber and an empty blockHistory first moves currentBlockNumber
\* to headBlockNumber + currentBlockNumber and then adds 1; currentBlockNumber
\* never decreases.
C8_MonotonicAdvanceAfterWrap ==
    [][(NextBlockOk /\ ret'.err = "none" /\ ~ret'.isRollback)
        => /\ currentBlockNumber' =
                  IF ~ret'.isNewBlock THEN currentBlockNumber
                  ELSE IF currentBlockNumber < 0 /\ blockHistory = <<>>
                       THEN headBlockNumber' + currentBlockNumber + 1
                       ELSE currentBlockNumber + 1
           /\ currentBlockNumber' >= currentBlockNumber]_vars

\* C8 witness: a run of advances, the last one a new block right after the
\* block that is now the newest history entry.
C8_Witness ==
    /\ ret.op = "nextBlock" /\ ret.isNewBlock /\ ~ret.isRollback
    /\ Len(blockHistory) >= 2
    /\ currentBlockNumber = blockHistory[Len(blockHistory)].blockNumber + 1

\* C9 as stated: the first nextBlock call of a reader constructed with a
\* negative startAtBlock = s, the adapter's head being h with h + s + 1 >= 1,
\* returns block h + s + 1 with isNewBlock=true and sets isFirstBlock.
C9_NegativeStartTailing ==
    [][(ret.op = "none" /\ NextBlockOk /\ startAtBlock < 0
            /\ getHeadBlockNumber + startAtBlock + 1 >= 1)
        => /\ ret'.err = "none"
           /\ ret'.block = getBlock(getHeadBlockNumber + startAtBlock + 1)
           /\ ret'.isNewBlock
           /\ isFirstBlock']_vars

\* C9 amended: with h + s >= 1 the first nextBlock call returns block h + s,
\* with isNewBlock=true, isRollback=false and isFirstBlock=true after it.
C9_NegativeStartTailsFromHeadPlusStart ==
    [][(ret.op = "none" /\ NextBlockOk /\ startAtBlock < 0
            /\ getHeadBlockNumber + startAtBlock >= 1)
        => /\ ret'.err = "none"
           /\ ret'.block = getBlock(getHeadBlockNumber + startAtBlock)
           /\ ret'.isNewBlock /\ ~ret'.isRollback
           /\ isFirstBlock'
           /\ startAtBlock' = getHeadBlockNumber + startAtBlock]_vars

\* C9 witness: the first block was returned to a tailing reader: startAtBlock
\* was rewritten to a number no reader is constructed with.
C9_Witness ==
    /\ ret.op = "nextBlock" /\ ret.isNewBlock /\ isFirstBlock
    /\ startAtBlock > MaxStart
    /\ blockHistory = <<>>
    /\ ret.block.blockNumber = startAtBlock

\* C10: whenever nextBlock returns isNewBlock=false, the block it returns is
\* the block the preceding nextBlock call returned.
C10_NotNewMeansSameBlock ==
    [][(NextBlockOk /\ ret'.err = "none" /\ ~ret'.isNewBlock)
        => ret'.block = returned]_vars

\* C11: after a nextBlock or seekToBlock call was aborted by an adapter
\* failure, a nextBlock retry made while the adapter resolves every call and
\* holds the block the reader is positioned on does not fail with a null
\* currentBlockData (at the end of nextBlock or at the start of resolveFork).
C11_RetryAfterFailure ==
    [][(ret.err = "io" /\ NextBlockOk /\ HasBlock(chain, currentBlockNumber))
        => ret'.err \notin {"null", "forknull"}]_vars

\* C12: between operations, a currentBlockData that is present has the
\* blockNumber currentBlockNumber.
C12_CurrentBlockInvariant ==
    currentBlockData # Null
        => currentBlockData.blockNumber = currentBlockNumber

\* C13: the block numbers of blockHistory are strictly increasing from the
\* oldest entry to the newest (so no two entries have the same blockNumber).
C13_HistoryStrictlyIncreasing ==
    \A i \in 1..Len(blockHistory) : \A j \in 1..Len(blockHistory) :
        i < j => blockHistory[i].blockNumber < blockHistory[j].blockNumber

\* C14: a seekToBlock(N) with N >= 2 and N >= startAtBlock that returns,
\* called with a blockHistory of distinct block numbers: if an entry is numbered N, then
\* after the call currentBlockData is that entry, blockHistory holds exactly
\* the entries older than it and no getBlock call was made; otherwise
\* blockHistory is left as it was and exactly one getBlock call was made.
C14_SeekHistoryReuse ==
    [][(\E N \in 0..MaxBlock :
            /\ SeekToBlockCall(N, 0)
            /\ N >= 2 /\ N >= startAtBlock
            /\ ret'.err = "none"
            /\ C13_HistoryStrictlyIncreasing)
        => LET N == ret'.arg
               found == {i \in 1..Len(blockHistory) :
                            blockHistory[i].blockNumber = N}
           IN  IF found # {}
               THEN LET i == CHOOSE i \in found : TRUE
                    IN  /\ currentBlockData' = blockHistory[i]
                        /\ blockHistory' = SubSeq(blockHistory, 1, i - 1)
                        /\ ret'.calls = <<>>
               ELSE /\ blockHistory' = blockHistory
                    /\ Len(ret'.calls) = 1]_vars

\* C15: with every adapter call resolving, the first nextBlock call after
\* construction (startAtBlock >= 1, the adapter holding at least one block)
\* does not fail with a null currentBlockData and commits a block.
C15_FirstCallCommits ==
    [][(ret.op = "none" /\ NextBlockOk /\ startAtBlock >= 1
            /\ getHeadBlockNumber >= 1)
        => (ret'.err = "none" /\ ret'.isNewBlock)]_vars

\* C16 as stated: in every reachable state, from construction onward and
\* after every nextBlock and seekToBlock, isFirstBlock is true exactly when
\* currentBlockNumber = startAtBlock.
C16_IsFirstBlockDerived ==
    isFirstBlock <=> (currentBlockNumber = startAtBlock)

\* C16 amended: isFirstBlock is true from construction until the first call,
\* and whenever the last operation is a nextBlock call that returned,
\* isFirstBlock is true exactly when currentBlockNumber = startAtBlock.
C16_IsFirstBlockAfterNextBlock ==
    /\ ret.op = "none" => isFirstBlock
    /\ (ret.op = "nextBlock" /\ ret.err = "none")
           => (isFirstBlock <=> (currentBlockNumber = startAtBlock))

\* C16 witness: a nextBlock call returned a new block after the first one and
\* lowered the flag.
C16_Witness ==
    /\ ret.op = "nextBlock" /\ ret.err = "none" /\ ret.isNewBlock
    /\ currentBlockNumber > startAtBlock
    /\ ~isFirstBlock

\* C17: while the block last returned to the caller is no longer on the
\* adapter's chain and no isRollback=true was returned since the
\* reorganisation, a nextBlock call that validates against a non-empty
\* blockHistory and returns a new block returns it with isRollback=true, also
\* when an earlier nextBlock call was aborted by an adapter failure.
C17_RollbackNeverLost ==
    [][(NextBlockOk /\ returned # Null /\ ~OnChain(returned)
            /\ rollbacks = 0 /\ blockHistory # <<>>
            /\ ret'.err = "none" /\ ret'.isNewBlock)
        => ret'.isRollback]_vars

\* C18: over one chain that only grows, no nextBlock call returns
\* isRollback=true.
C18_NoSpuriousRollback ==
    [][NextBlockOk => ~ret'.isRollback]_vars

\* C19, the fork lies outside the retained blockHistory: the current block
\* is not the adapter's and no blockHistory entry is.
C19_ForkOutsideHistory ==
    /\ currentBlockData # Null
    /\ ~OnChain(currentBlockData)
    /\ NewestOnChain(blockHistory, Len(blockHistory)) = Null

\* C19, as a property a finite run refutes: a reader that is behind the
\* adapter's head (head >= startAtBlock >= 1, the fork within blockHistory,
\* history not exhausted) is not at rest: a nextBlock call whose adapter calls
\* all resolve does not return without changing the reader.  In a state at
\* rest every later call repeats the same return while the adapter's chain
\* stays as it is, so the reader never reaches the head.
C19_EventualCatchUp ==
    LET r == nextBlockResult(0)
    IN  (/\ startAtBlock >= 1
         /\ getHeadBlockNumber >= startAtBlock
         /\ ~C19_ForkOutsideHistory
         /\ ~exhausted
         /\ currentBlockNumber < getHeadBlockNumber)
        => ~(/\ r.err = "none"
             /\ ~r.isNewBlock
             /\ r.head = headBlockNumber
             /\ r.cbn = currentBlockNumber
             /\ r.cbd = currentBlockData
             /\ r.hist = blockHistory)

\* C20: over an adapter that holds at least one block, every getBlock(n)
\* call issued by nextBlock has n >= 1, for a positive, zero or negative
\* startAtBlock.
C20_ValidBlockNumbers ==
    [][(NextBlockOk /\ getHeadBlockNumber >= 1)
        => \A i \in 1..Len(ret'.calls) : ret'.calls[i] >= 1]_vars

====
